---- MODULE Spec2Model ----
(***************************************************************************)
(* Access-request policy evaluation engine of backend/src/routes/access.ts *)
(* (PixelGenesis): the request lifecycle handlers, the notes audit trail,  *)
(* the condition evaluator and the event bus, as a state machine.          *)
(*                                                                         *)
(* Each HTTP handler is an async function; between two awaits it runs to   *)
(* completion, and handlers of concurrent requests interleave at awaits.   *)
(* An action of the model is one awaited database statement or agent call  *)
(* taking effect, together with the synchronous code of the handler around *)
(* it.                                                                     *)
(***************************************************************************)
EXTENDS Integers, Sequences, FiniteSets, TLC

\* ---- bounds of the model ----
MaxOps == 2
MaxRequests == 2
MaxChildren == 2

\* Handler slots: the HTTP requests that can be in flight at once.
Procs == {1, 2}

\* ---- optional values: JS null / undefined is None, a present value v is Some(v)
None == <<>>
Some(v) == <<v>>
IsSome(o) == Len(o) > 0
Get(o) == o[1]

\* ---- JS values of claims and of condition operands --------------------
\* A number is Num(n); a string is Str(chars), chars a sequence of characters.
\* Fn(name) is the function a property lookup finds on Object.prototype.
\* NoPrim is an object whose own toString is not callable, e.g. the JSON
\* value {"toString": null}: converting it to a string or to a number throws
\* TypeError (ToPrimitive finds no method that returns a primitive).
Num(n) == [t |-> "num", n |-> n, s |-> <<>>]
Str(s) == [t |-> "str", n |-> 0, s |-> s]
Fn(name) == [t |-> "fn", n |-> 0, s |-> <<name>>]
NoPrim == [t |-> "obj", n |-> 0, s |-> <<>>]

ToPrimitiveThrows(v) == v.t = "obj"
OptThrows(o) == IsSome(o) /\ ToPrimitiveThrows(Get(o))

Digits == <<"0", "1", "2", "3", "4", "5", "6", "7", "8", "9">>
IsDigit(c) == \E i \in 1..10 : Digits[i] = c
DigitVal(c) == (CHOOSE i \in 1..10 : Digits[i] = c) - 1

RECURSIVE ParseDigits(_)
ParseDigits(s) ==
  IF s = <<>> THEN 0
  ELSE 10 * ParseDigits(SubSeq(s, 1, Len(s) - 1)) + DigitVal(s[Len(s)])

\* access.ts 86-89: Number(input), NaN mapped to null. Number("") is 0, a
\* string of decimal digits is its value, any other string of the model and
\* a function are NaN. (Number of a NoPrim throws: see ToPrimitiveThrows.)
toNumber(v) ==
  IF v.t = "num" THEN Some(v.n)
  ELSE IF v.t = "str" /\ \A i \in 1..Len(v.s) : IsDigit(v.s[i]) THEN Some(ParseDigits(v.s))
  ELSE None

\* String(value) / `${value}` as a sequence of characters; a number is one
\* piece, the source text of a native function three.
Show(v) ==
  IF v.t = "num" THEN <<ToString(v.n)>>
  ELSE IF v.t = "fn" THEN <<"function ", v.s[1], "() { [native code] }">>
  ELSE v.s

StartsWith(a, b) == Len(b) <= Len(a) /\ SubSeq(a, 1, Len(b)) = b
EndsWith(a, b) == Len(b) <= Len(a) /\ SubSeq(a, Len(a) - Len(b) + 1, Len(a)) = b
Includes(a, b) == \E i \in 0..(Len(a) - Len(b)) : SubSeq(a, i + 1, i + Len(b)) = b

\* String.prototype.trim on the message and claim strings of the model.
Trim(s) == CASE s = " " -> "" [] s = " please " -> "please" [] OTHER -> s

\* ---- condition trees ---------------------------------------------------
\* tag "str"    : an opaque string condition (typeof condition === 'string')
\* tag "scalar" : { claim?, op?, value? }
\* tag "all" / "any" : { all: [...] } / { any: [...] }
CStr(s) == [tag |-> "str", claim |-> None, op |-> None, value |-> Some(Str(s)), kids |-> <<>>]
CScalar(claim, op, value) ==
  [tag |-> "scalar", claim |-> claim, op |-> op, value |-> value, kids |-> <<>>]
CAll(kids) == [tag |-> "all", claim |-> None, op |-> None, value |-> None, kids |-> kids]
CAny(kids) == [tag |-> "any", claim |-> None, op |-> None, value |-> None, kids |-> kids]

\* A claims map (credentialSubject): claim name -> optional value. The object
\* comes out of JSON.parse, so its prototype is Object.prototype.
ClaimNames == {"age", "vaccination"}
Claims(age, vaccination) == [age |-> age, vaccination |-> vaccination]
ObjectPrototypeKeys == {"constructor", "toString", "valueOf"}
ValueKeys == ClaimNames \cup ObjectPrototypeKeys

\* subject?.[key] (access.ts 209, 270): the own property, else the inherited one.
GetClaim(subject, key) ==
  IF key \in ClaimNames /\ IsSome(subject[key]) THEN subject[key]
  ELSE IF key \in ObjectPrototypeKeys THEN Some(Fn(key))
  ELSE None

NumericOps == {">=", ">", "<=", "<"}

NumRel(op, a, e) ==
  CASE op = ">=" -> a >= e
    [] op = ">"  -> a > e
    [] op = "<=" -> a <= e
    [] OTHER     -> a < e

NumReason(op, pass, a, e) ==
  LET rel == CASE op = ">=" -> IF pass THEN " is >= " ELSE " is < "
               [] op = ">"  -> IF pass THEN " is > " ELSE " is <= "
               [] op = "<=" -> IF pass THEN " is <= " ELSE " is > "
               [] OTHER     -> IF pass THEN " is < " ELSE " is >= "
  IN <<"Value ", ToString(a), rel, ToString(e)>>

\* The TypeError a conversion throws out of evaluateScalar.
ScalarThrows ==
  [pass |-> FALSE, reason |-> <<"Cannot convert object to primitive value">>,
   throws |-> TRUE]
ScalarResult(pass, reason) == [pass |-> pass, reason |-> reason, throws |-> FALSE]

\* access.ts 68-194. `value` is a present claim value; `condition` a scalar node.
evaluateScalar(value, condition) ==
  LET op == IF IsSome(condition.op) THEN Get(condition.op) ELSE "equals"
      expected == condition.value
  IN
  IF op \in NumericOps THEN
    IF ToPrimitiveThrows(value) \/ OptThrows(expected) THEN ScalarThrows
    ELSE
    LET actual == toNumber(value)
        \* Number(undefined) is NaN
        exp == IF IsSome(expected) THEN toNumber(Get(expected)) ELSE None
    IN IF ~IsSome(actual) \/ ~IsSome(exp)
       THEN ScalarResult(FALSE, <<"Non-numeric comparison for ", op, " operator">>)
       ELSE LET pass == NumRel(op, Get(actual), Get(exp))
            IN ScalarResult(pass, NumReason(op, pass, Get(actual), Get(exp)))
  ELSE IF op \in {"contains", "includes"} THEN
    IF value.t # "str"
    THEN ScalarResult(FALSE, <<"Value is not list-like for contains/includes check">>)
    ELSE IF OptThrows(expected) THEN ScalarThrows
    ELSE LET e == IF IsSome(expected) THEN Show(Get(expected))
                  ELSE <<"u", "n", "d", "e", "f", "i", "n", "e", "d">>
             pass == Includes(value.s, e)
         IN ScalarResult(pass, IF pass THEN <<"Value contains ">> \o e
                               ELSE <<"Value does not contain ">> \o e)
  ELSE IF op = "startsWith" THEN
    IF ToPrimitiveThrows(value) \/ OptThrows(expected) THEN ScalarThrows
    ELSE
    LET prefix == IF IsSome(expected) THEN Show(Get(expected)) ELSE <<>>
        pass == StartsWith(Show(value), prefix)
    IN ScalarResult(pass, IF pass THEN <<"Value starts with ">> \o prefix
                          ELSE <<"Value does not start with ">> \o prefix)
  ELSE IF op = "endsWith" THEN
    IF ToPrimitiveThrows(value) \/ OptThrows(expected) THEN ScalarThrows
    ELSE
    LET suffix == IF IsSome(expected) THEN Show(Get(expected)) ELSE <<>>
        pass == EndsWith(Show(value), suffix)
    IN ScalarResult(pass, IF pass THEN <<"Value ends with ">> \o suffix
                          ELSE <<"Value does not end with ">> \o suffix)
  ELSE
    \* 'equals', '==', '===' and every unknown operator: value === expected;
    \* the reason is a template literal over value and expected
    IF ToPrimitiveThrows(value) \/ OptThrows(expected) THEN ScalarThrows
    ELSE
    LET pass == IsSome(expected) /\ value = Get(expected)
        e == IF IsSome(expected) THEN Show(Get(expected)) ELSE <<"undefined">>
    IN ScalarResult(pass, IF pass THEN <<"Value ">> \o Show(value) \o <<" equals ">> \o e
                          ELSE <<"Value ">> \o Show(value) \o <<" does not equal ">> \o e)

\* { ...a, ...b } on claim-value maps: keys of b overwrite keys of a.
Spread(a, b) == [k \in ValueKeys |-> IF IsSome(b[k]) THEN b[k] ELSE a[k]]
NoValues == [k \in ValueKeys |-> None]
OneValue(key, v) == [k \in ValueKeys |-> IF k = key THEN Some(v) ELSE None]

RECURSIVE JoinReasons(_)
JoinReasons(rs) ==
  IF rs = <<>> THEN <<>>
  ELSE IF Len(rs) = 1 THEN rs[1].reason
  ELSE rs[1].reason \o <<" | ">> \o JoinReasons(Tail(rs))

RECURSIVE SpreadAll(_)
SpreadAll(rs) ==
  IF rs = <<>> THEN NoValues
  ELSE Spread(SpreadAll(SubSeq(rs, 1, Len(rs) - 1)), rs[Len(rs)].values)

ExprResult(pass, reason, values) ==
  [pass |-> pass, reason |-> reason, values |-> values, throws |-> FALSE]
ExprThrows ==
  [pass |-> FALSE, reason |-> ScalarThrows.reason, values |-> NoValues, throws |-> TRUE]

\* !claimKey: null, undefined and the empty string
NoClaim(claim) == ~IsSome(claim) \/ Get(claim) = ""

\* A disjunction that requires every result to pass.
AnyPassEvery(results) == \A i \in 1..Len(results) : results[i].pass

\* access.ts 235: results.every(...), and 255: results.some(...)
AllPass(results) == \A i \in 1..Len(results) : results[i].pass
AnyPass(results) == \E i \in 1..Len(results) : results[i].pass

\* access.ts 229, 249: entry?.claim ?? fallbackClaim
ChildFallback(entry, fallbackClaim) ==
  IF IsSome(entry.claim) THEN entry.claim ELSE fallbackClaim

\* A string condition compared by substring.
LiteralScalarContains(expression) == CScalar(None, Some("contains"), expression.value)

\* access.ts 217: { op: 'equals', value: expression }
LiteralScalar(expression) == CScalar(None, Some("equals"), expression.value)

\* The tail of both leaf branches (access.ts 209-222, 270-284)
EvaluateClaim(subject, key, condition) ==
  LET value == GetClaim(subject, key)
  IN IF ~IsSome(value)
     THEN ExprResult(FALSE, <<"Claim ", key, " not present in credential">>, NoValues)
     ELSE LET scalar == evaluateScalar(Get(value), condition)
          IN IF scalar.throws THEN ExprThrows
             ELSE ExprResult(scalar.pass, <<key, ": ">> \o scalar.reason,
                             OneValue(key, Get(value)))

\* access.ts 196-285. fallbackClaim is an optional claim name.
RECURSIVE evaluateExpression(_, _, _)
evaluateExpression(subject, expression, fallbackClaim) ==
  IF expression.tag = "str" THEN
    IF NoClaim(fallbackClaim)
    THEN ExprResult(FALSE, <<"No claim specified for condition">>, NoValues)
    ELSE EvaluateClaim(subject, Get(fallbackClaim), LiteralScalar(expression))
  ELSE IF expression.tag \in {"all", "any"} THEN
    LET results == [i \in 1..Len(expression.kids) |->
                      evaluateExpression(subject, expression.kids[i],
                        ChildFallback(expression.kids[i], fallbackClaim))]
        pass == IF expression.tag = "all" THEN AllPass(results) ELSE AnyPass(results)
        head == IF expression.tag = "all"
                THEN (IF pass THEN "All conditions satisfied: " ELSE "Some conditions failed: ")
                ELSE (IF pass THEN "At least one condition satisfied: "
                      ELSE "No conditions satisfied: ")
    IN \* an exception out of the map callback leaves evaluateExpression
       IF \E i \in 1..Len(results) : results[i].throws THEN ExprThrows
       ELSE ExprResult(pass, <<head>> \o JoinReasons(results), SpreadAll(results))
  ELSE
    LET claimKey == IF IsSome(expression.claim) THEN expression.claim ELSE fallbackClaim
    IN IF NoClaim(claimKey)
       THEN ExprResult(FALSE, <<"No claim specified for condition">>, NoValues)
       ELSE EvaluateClaim(subject, Get(claimKey), expression)

\* access.ts 27-45
RECURSIVE extractPrimaryClaim(_)
RECURSIVE FirstClaim(_)
FirstClaim(kids) ==
  IF kids = <<>> THEN None
  ELSE LET found == extractPrimaryClaim(kids[1])
       IN IF IsSome(found) THEN found ELSE FirstClaim(Tail(kids))
extractPrimaryClaim(condition) ==
  IF condition.tag = "str" THEN None
  ELSE IF IsSome(condition.claim) /\ Trim(Get(condition.claim)) # "" THEN condition.claim
  ELSE FirstClaim(condition.kids)

\* access.ts 47-60, on conditions whose operands are numbers and strings
RECURSIVE describeCondition(_)
RECURSIVE DescribeJoin(_, _)
DescribeJoin(kids, sep) ==
  IF kids = <<>> THEN <<>>
  ELSE IF Len(kids) = 1 THEN describeCondition(kids[1])
  ELSE describeCondition(kids[1]) \o <<sep>> \o DescribeJoin(Tail(kids), sep)
describeCondition(condition) ==
  IF condition.tag = "str" THEN Get(condition.value).s
  ELSE IF condition.tag = "all" THEN <<"ALL[">> \o DescribeJoin(condition.kids, " & ") \o <<"]">>
  ELSE IF condition.tag = "any" THEN <<"ANY[">> \o DescribeJoin(condition.kids, " | ") \o <<"]">>
  ELSE (IF ~NoClaim(condition.claim) THEN <<Get(condition.claim), " ">> ELSE <<>>)
       \o <<IF IsSome(condition.op) THEN Get(condition.op) ELSE "==", " ">>
       \o (IF IsSome(condition.value) THEN Show(Get(condition.value)) ELSE <<"undefined">>)


\* ---- the store ----------------------------------------------------------
\* An address stored as the caller wrote it.
RawAddress(address) == address

\* utils/db.ts 4-6: address.toLowerCase(), on the characters wallets are made of.
LowerChar(c) ==
  CASE c = "A" -> "a" [] c = "B" -> "b" [] c = "C" -> "c"
    [] c = "D" -> "d" [] c = "E" -> "e" [] c = "F" -> "f"
    [] c = "X" -> "x" [] OTHER -> c
normalizeAddress(address) == [i \in 1..Len(address) |-> LowerChar(address[i])]

\* The notes object: every key optional; timeline is a list of {state, at}.
EmptyNotes ==
  [policy |-> None, initialMessage |-> None, challenge |-> None,
   response |-> None, evaluation |-> None, timeline |-> None]
NotesKeys == {"policy", "initialMessage", "challenge", "response", "evaluation", "timeline"}

\* access.ts 14-20: the parsed notes column, or {} when it is NULL.
notesToObject(existing) == IF IsSome(existing) THEN Get(existing) ELSE EmptyNotes

\* access.ts 22-25: NULL for an object without keys, its JSON text otherwise.
serializeNotes(obj) ==
  IF \A k \in NotesKeys : ~IsSome(obj[k]) THEN None ELSE Some(obj)

\* utils/db.ts 19-22
toNullishJSON(value) == IF IsSome(value) THEN Some(Get(value)) ELSE None

\* The condition column is TEXT: the caller's string as it came, or the JSON
\* text of the caller's object (access.ts 318-319).
ConditionColumn(condition) ==
  IF condition.tag = "str" THEN [json |-> FALSE, v |-> condition]
  ELSE [json |-> TRUE, v |-> condition]

\* JSON.parse of the condition column: the object of a JSON text; for a raw
\* string, a number when the string is decimal digits (an object-less scalar)
\* and a SyntaxError (None) for the other raw strings of the model.
ParseConditionColumn(col) ==
  IF col.json THEN Some(col.v)
  ELSE LET s == Get(col.v.value).s
       IN IF s # <<>> /\ \A i \in 1..Len(s) : IsDigit(s[i])
          THEN Some(CScalar(None, None, None))
          ELSE None

\* utils/db.ts 93-111. A timestamp column is mapped through `x ? Number(x) : null`.
MapTime(t) == IF IsSome(t) /\ Get(t) # 0 THEN t ELSE None
mapAccessRequestRow(row) ==
  [id |-> row.id,
   citizenWallet |-> row.citizen_wallet,
   verifierWallet |-> row.verifier_wallet,
   claim |-> row.claim,
   condition |-> ParseConditionColumn(row.condition),
   status |-> row.status,
   notes |-> row.notes,
   responsePayload |-> row.response_payload,
   createdAt |-> MapTime(Some(row.created_at)),
   updatedAt |-> MapTime(row.updated_at),
   respondedAt |-> MapTime(row.responded_at)]

\* The credentials table (external to the engine): credential id -> vc_jwt.
CredentialIds == {1}
CredentialJwt(id) == "jwt-stored"

\* ---- request bodies the callers send ---------------------------------------
Body ==
  [citizenWallet |-> None, verifierWallet |-> None, claim |-> None,
   condition |-> None, policy |-> None, notes |-> None,
   responsePayload |-> None, status |-> None, result |-> None, reason |-> None]

WalletA == <<"0", "x", "A", "b", "1">>
WalletV == <<"0", "X", "c", "D", "2">>
CondAge21 == CScalar(Some("age"), Some(">="), Some(Num(21)))
CondOpaque == CStr(<<"o", "v", "e", "r">>)
CondLiteral21 == CStr(<<"2", "1">>)
Policy1 == [id |-> Some("age-gate"), label |-> Some("Lounge"), description |-> None]

CreateBody1 ==
  [Body EXCEPT !.citizenWallet = Some(WalletA), !.verifierWallet = Some(WalletV),
               !.condition = Some(CondAge21), !.policy = Some(Policy1),
               !.notes = Some(" please ")]
\* A string condition, with the claim it is about named beside it.
CreateBodyLiteral ==
  [Body EXCEPT !.citizenWallet = Some(WalletA), !.verifierWallet = Some(WalletV),
               !.claim = Some("age"), !.condition = Some(CondLiteral21)]
CreateBodies ==
  { CreateBody1, CreateBodyLiteral,
    [Body EXCEPT !.citizenWallet = Some(WalletA), !.verifierWallet = Some(WalletV),
                 !.condition = Some(CondOpaque)],
    [Body EXCEPT !.citizenWallet = Some(WalletA), !.verifierWallet = Some(WalletV),
                 !.claim = Some("age")] }

\* Bodies of POST /access/request that differ in claim and condition.
CondNoClaim == CScalar(None, Some(">="), Some(Num(21)))
CondVaccination == CScalar(Some("vaccination"), Some("equals"), Some(Str(<<"y", "e", "s">>)))
CreateConditions ==
  { None, Some(CStr(<<>>)), Some(CondOpaque), Some(CondLiteral21),
    Some(CondAge21), Some(CondNoClaim),
    Some(CAll(<<>>)), Some(CAny(<<>>)),
    Some(CAll(<<CondNoClaim, CAny(<<CondNoClaim, CondVaccination>>), CondAge21>>)),
    Some(CAny(<<CScalar(Some(" "), Some("<"), Some(Num(65))), CondAge21, CondVaccination>>)),
    Some(CAll(<<CondAge21, CAny(<<>>)>>)),
    Some(CAll(<<CondNoClaim, CAny(<<CondNoClaim>>)>>)) }
CreateProbes ==
  { [Body EXCEPT !.citizenWallet = Some(WalletA), !.verifierWallet = Some(WalletV),
                 !.claim = claim, !.condition = condition] :
      claim \in {None, Some(" "), Some("age"), Some("vaccination")},
      condition \in CreateConditions }
  \cup { CreateBody1,
         [CreateBody1 EXCEPT !.citizenWallet = None],
         [CreateBody1 EXCEPT !.verifierWallet = None] }

ChallengeBody1 == [Body EXCEPT !.notes = Some("prove it")]
ChallengeBodies == { ChallengeBody1 }

Payload(vcJwt, credentialId) == [vcJwt |-> vcJwt, credentialId |-> credentialId]
RespondBody1 == [Body EXCEPT !.responsePayload = Some(Payload(Some("jwt-inline"), None))]
RespondBodies ==
  { RespondBody1,
    [Body EXCEPT !.responsePayload = Some(Payload(None, Some(1))),
                 !.status = Some("granted")],
    [Body EXCEPT !.responsePayload = Some(Payload(None, Some(7)))],
    [Body EXCEPT !.status = Some("responded")] }

EvaluateBodies ==
  { Body,
    [Body EXCEPT !.result = Some("granted"), !.reason = Some(<<"manual override">>)],
    [Body EXCEPT !.result = Some("maybe")] }

\* Outcomes of the external agent: verifyCredential resolves verified or not,
\* or rejects; decodeJWT yields the credentialSubject.
VerifyOutcomes == {"verified", "unverified", "throws"}
DecodedSubjects ==
  { Claims(Some(Num(25)), None), Claims(Some(Num(19)), None),
    Claims(Some(Str(<<"2", "1">>)), None), Claims(Some(NoPrim), None) }


\* ---- state -----------------------------------------------------------------
VARIABLES
  rows,            \* table access_requests: rows[id], id = 1..Len(rows) (AUTOINCREMENT)
  lastInsertRowid, \* SQLite last_insert_rowid() of the shared connection
  citizens,        \* table citizens: the wallet addresses present
  clock,           \* Date.now() as read by the latest request to arrive
  started,         \* number of HTTP requests this server process has received
  events,          \* envelopes passed to emitter.emit('event', ...), in order
  pc,              \* pc[p]: the await a handler is suspended at
  h,               \* h[p]: the handler's req and local variables
  res,             \* res[p]: the HTTP response sent, if any
  call,            \* a call of evaluateExpression: its arguments and its result
  bus              \* the emitter: its listeners and what each has been handed

vars == <<rows, lastInsertRowid, citizens, clock, events, started, pc, h, res, call, bus>>

IdleFrame ==
  [kind |-> "none", id |-> 0, body |-> Body, now |-> 0, snap |-> None,
   vcJwt |-> None, verified |-> None, subject |-> None, nwrites |-> 0, nemits |-> 0]

\* Date.now() is read once per request, on arrival (access.ts 311, 441, 481,
\* 533); requests arrive one clock unit apart.
Arrive == clock' = clock + 1 /\ started' = started + 1
Frame(kind, id, body) ==
  [IdleFrame EXCEPT !.kind = kind, !.id = id, !.body = body, !.now = clock + 1]

Ok(requestRecord) ==
  [code |-> 200, error |-> "", request |-> Some(requestRecord), items |-> <<>>]
Err(code, error) == [code |-> code, error |-> error, request |-> None, items |-> <<>>]
OkItems(items) == [code |-> 200, error |-> "", request |-> None, items |-> items]

\* ---- the event bus (events/bus.ts) and its subscribers (GET /events) --------
\* A subscriber is one GET /events connection. bus.listeners is the emitter's
\* listener array, in registration order; bus.closed holds the connections
\* whose close handler has run; bus.inbox[s] is what s's callback was handed,
\* in order; bus.faulty holds the subscribers whose callback throws when called.
Subs == {1, 2}
NoBus ==
  [listeners |-> <<>>, closed |-> {}, inbox |-> [s \in Subs |-> <<>>], faulty |-> {}]

\* The envelope of bus.ts 13-17.
Envelope(type, data) == [type |-> type, data |-> data, at |-> clock]

\* bus.ts 12-19: the envelopes handed to emitter.emit, in order.
emitEvent(type, data) == Append(events, Envelope(type, data))

Range(seq) == {seq[i] : i \in DOMAIN seq}
RECURSIVE Without(_, _)
Without(seq, x) ==
  IF seq = <<>> THEN <<>>
  ELSE IF Head(seq) = x THEN Without(Tail(seq), x)
  ELSE <<Head(seq)>> \o Without(Tail(seq), x)

\* A close handler that leaves its listener registered.
KeepListener(listeners, s) == listeners

\* bus.ts 23-25: emitter.off('event', listener)
RemoveListener(listeners, s) == Without(listeners, s)

\* emitter.emit('event', envelope) (bus.ts 18): the listeners are called one
\* after the other, in registration order, inside the call; an exception of a
\* listener leaves emit at once, so the listeners after it are never called.
FirstFaulty(listeners) ==
  IF \E i \in DOMAIN listeners : listeners[i] \in bus.faulty
  THEN CHOOSE i \in DOMAIN listeners :
         /\ listeners[i] \in bus.faulty
         /\ \A j \in 1..(i - 1) : listeners[j] \notin bus.faulty
  ELSE 0
EmitThrows == FirstFaulty(bus.listeners) # 0
Called(listeners) ==
  IF FirstFaulty(listeners) = 0 THEN Range(listeners)
  ELSE {listeners[j] : j \in 1..(FirstFaulty(listeners) - 1)}
Dispatch(envelope) ==
  [bus EXCEPT !.inbox = [s \in Subs |->
     IF s \in Called(bus.listeners) THEN Append(bus.inbox[s], envelope)
     ELSE bus.inbox[s]]]

\* The catch block of a handler (access.ts 379-382, 472-475, 510-513, 634-637)
\* when the exception comes out of emitEvent.
ListenerError == "listener failed"

\* A new HTTP request is taken by the first handler slot that is free (slots
\* are interchangeable; the frame of a finished handler stays until reused).
Free(p) == pc[p] \in {"idle", "done"}
CanStart(p) == Free(p) /\ started < MaxOps /\ \A q \in Procs : q < p => ~Free(q)

Reply(p, r) == /\ pc' = [pc EXCEPT ![p] = "done"]
               /\ res' = [res EXCEPT ![p] = Some(r)]

\* The ids a caller may name: the stored ones and one that does not exist.
StoredIds == DOMAIN rows
UnknownId == Len(rows) + 1

\* A timeline rebuilt from the new entry alone instead of appended to.
PushTimelineReset(notesObj, state, now) ==
  [notesObj EXCEPT !.timeline = Some(<<[state |-> state, at |-> now]>>)]

\* access.ts 454-456, 495-497, 584-586, 619-621
PushTimeline(notesObj, state, now) ==
  LET timeline == IF IsSome(notesObj.timeline) THEN Get(notesObj.timeline) ELSE <<>>
  IN [notesObj EXCEPT !.timeline = Some(Append(timeline, [state |-> state, at |-> now]))]

\* An UPDATE that leaves the notes column out of its SET list.
UpdateStatusOnly(row, status, notes, now) ==
  [row EXCEPT !.status = status, !.updated_at = Some(now)]

\* UPDATE access_requests SET status = ?, notes = ?, updated_at = ? WHERE id = ?
\* (access.ts 499-504, 588-593, 623-628)
UpdateStatusNotes(row, status, notes, now) ==
  [row EXCEPT !.status = status, !.notes = notes, !.updated_at = Some(now)]

\* ---- POST /access/request (access.ts 287-383) ------------------------------
Falsy(condition) == ~IsSome(condition) \/ Get(condition) = CStr(<<>>)

StartCreate(p, body) ==
  /\ CanStart(p)
  /\ Len(rows) < MaxRequests
  /\ Arrive
  /\ h' = [h EXCEPT ![p] = Frame("create", 0, body)]
  /\ IF ~IsSome(body.citizenWallet) THEN Reply(p, Err(400, "citizenWallet required"))
     ELSE IF ~IsSome(body.verifierWallet) THEN Reply(p, Err(400, "verifierWallet required"))
     ELSE IF Falsy(body.condition) THEN Reply(p, Err(400, "condition required"))
     ELSE pc' = [pc EXCEPT ![p] = "c_insert"] /\ res' = [res EXCEPT ![p] = None]
  /\ UNCHANGED <<rows, lastInsertRowid, citizens, events, bus>>

\* A claim taken from the condition even when the caller names one.
PrimaryClaimConditionFirst(body) ==
  IF IsSome(extractPrimaryClaim(Get(body.condition)))
  THEN extractPrimaryClaim(Get(body.condition))
  ELSE IF IsSome(body.claim) /\ Trim(Get(body.claim)) # "" THEN body.claim
  ELSE None

\* access.ts 321-326
PrimaryClaim(body) ==
  IF IsSome(body.claim) /\ Trim(Get(body.claim)) # "" THEN body.claim
  ELSE extractPrimaryClaim(Get(body.condition))

\* access.ts 334-356
BaseNotes(body, now) ==
  LET policyInfo ==
        IF IsSome(body.policy) /\ (IsSome(Get(body.policy).id) \/ IsSome(Get(body.policy).label))
        THEN body.policy ELSE None
      initialMessage ==
        IF IsSome(body.notes) /\ Trim(Get(body.notes)) # ""
        THEN Some(Trim(Get(body.notes))) ELSE None
  IN [EmptyNotes EXCEPT !.timeline = Some(<<[state |-> "requested", at |-> now]>>),
                        !.policy = policyInfo,
                        !.initialMessage = initialMessage]

\* access.ts 358-370: the inserted row
NewRow(id, body, primaryClaim, now) ==
  [id |-> id,
   citizen_wallet |-> normalizeAddress(Get(body.citizenWallet)),
   verifier_wallet |-> normalizeAddress(Get(body.verifierWallet)),
   claim |-> primaryClaim,
   condition |-> ConditionColumn(Get(body.condition)),
   status |-> "requested",
   notes |-> serializeNotes(BaseNotes(body, now)),
   response_payload |-> None,
   created_at |-> now,
   updated_at |-> None,
   responded_at |-> None]

\* A handler that INSERTs first and checks the claim afterwards.
CreateInsertUnchecked(p) ==
  /\ pc[p] = "c_insert"
  /\ citizens' = citizens \cup {normalizeAddress(Get(h[p].body.citizenWallet))}
  /\ LET primaryClaim == PrimaryClaim(h[p].body)
         claim == IF IsSome(primaryClaim) THEN Get(primaryClaim) ELSE ""
     IN /\ rows' = Append(rows, NewRow(Len(rows) + 1, h[p].body, claim, h[p].now))
        /\ lastInsertRowid' = Len(rows) + 1
        /\ h' = [h EXCEPT ![p].nwrites = @ + 1]
        /\ IF ~IsSome(primaryClaim)
           THEN Reply(p, Err(400, "Unable to determine claim for access request"))
           ELSE pc' = [pc EXCEPT ![p] = "c_reread"] /\ UNCHANGED res
  /\ UNCHANGED <<clock, events, started, bus>>

\* ensureCitizen, the claim check and the INSERT (access.ts 313-370)
CreateInsert(p) ==
  /\ pc[p] = "c_insert"
  /\ citizens' = citizens \cup {normalizeAddress(Get(h[p].body.citizenWallet))}
  /\ LET primaryClaim == PrimaryClaim(h[p].body)
     IN IF ~IsSome(primaryClaim)
        THEN /\ Reply(p, Err(400, "Unable to determine claim for access request"))
             /\ UNCHANGED <<rows, lastInsertRowid, h>>
        ELSE /\ rows' = Append(rows, NewRow(Len(rows) + 1, h[p].body, Get(primaryClaim), h[p].now))
             /\ lastInsertRowid' = Len(rows) + 1
             /\ h' = [h EXCEPT ![p].nwrites = @ + 1]
             /\ pc' = [pc EXCEPT ![p] = "c_reread"]
             /\ UNCHANGED res
  /\ UNCHANGED <<clock, events, started, bus>>

\* SELECT ... WHERE id = last_insert_rowid(), emit, respond (access.ts 372-378)
CreateReread(p) ==
  /\ pc[p] = "c_reread"
  /\ LET requestRecord == mapAccessRequestRow(rows[lastInsertRowid])
     IN /\ events' = emitEvent("access_request.created", requestRecord)
        /\ bus' = Dispatch(Envelope("access_request.created", requestRecord))
        /\ IF EmitThrows THEN Reply(p, Err(500, ListenerError))
           ELSE Reply(p, Ok(requestRecord))
  /\ h' = [h EXCEPT ![p].nemits = @ + 1]
  /\ UNCHANGED <<rows, lastInsertRowid, citizens, clock, started>>

\* ---- POST /access/:id/challenge (access.ts 478-514) ------------------------
StartChallenge(p, id, body) ==
  /\ CanStart(p)
  /\ Arrive
  /\ h' = [h EXCEPT ![p] = Frame("challenge", id, body)]
  /\ pc' = [pc EXCEPT ![p] = "h_read"]
  /\ res' = [res EXCEPT ![p] = None]
  /\ UNCHANGED <<rows, lastInsertRowid, citizens, events, bus>>

\* The first SELECT of a handler and its not-found check
\* (access.ts 445-448, 485-488, 537-540).
ReadRow(p, next) ==
  IF h[p].id \notin DOMAIN rows
  THEN /\ Reply(p, Err(404, "access request not found"))
       /\ UNCHANGED h
  ELSE /\ h' = [h EXCEPT ![p].snap = Some(rows[h[p].id])]
       /\ pc' = [pc EXCEPT ![p] = next]
       /\ UNCHANGED res

ChallengeRead(p) ==
  /\ pc[p] = "h_read"
  /\ ReadRow(p, "h_write")
  /\ UNCHANGED <<rows, lastInsertRowid, citizens, clock, events, started, bus>>

\* access.ts 490-497
ChallengeNotes(snapRow, body, now) ==
  LET notesObj == [notesToObject(snapRow.notes) EXCEPT
                     !.challenge = Some([message |-> body.notes, issuedAt |-> now])]
  IN PushTimeline(notesObj, "challenge_sent", now)

ChallengeWrite(p) ==
  /\ pc[p] = "h_write"
  /\ rows' = [rows EXCEPT ![h[p].id] =
                UpdateStatusNotes(@, "challenge_sent",
                  serializeNotes(ChallengeNotes(Get(h[p].snap), h[p].body, h[p].now)),
                  h[p].now)]
  /\ h' = [h EXCEPT ![p].nwrites = @ + 1]
  /\ pc' = [pc EXCEPT ![p] = "h_reread"]
  /\ UNCHANGED <<lastInsertRowid, citizens, clock, events, started, res, bus>>

\* The closing SELECT, emitEvent and response (access.ts 465-471, 506-509, 630-633)
RereadEmit(p) ==
  LET requestRecord == mapAccessRequestRow(rows[h[p].id])
  IN /\ events' = emitEvent("access_request.updated", requestRecord)
     /\ bus' = Dispatch(Envelope("access_request.updated", requestRecord))
     /\ h' = [h EXCEPT ![p].nemits = @ + 1]
     /\ IF EmitThrows THEN Reply(p, Err(500, ListenerError))
        ELSE Reply(p, Ok(requestRecord))

ChallengeReread(p) ==
  /\ pc[p] = "h_reread"
  /\ RereadEmit(p)
  /\ UNCHANGED <<rows, lastInsertRowid, citizens, clock, started>>


\* ---- POST /access/:id/respond (access.ts 432-476) --------------------------
\* access.ts 440
RespondNextStatus(body) == IF IsSome(body.status) THEN Get(body.status) ELSE "responded"

StartRespond(p, id, body) ==
  /\ CanStart(p)
  /\ Arrive
  /\ h' = [h EXCEPT ![p] = Frame("respond", id, body)]
  /\ IF ~IsSome(body.responsePayload)
     THEN Reply(p, Err(400, "responsePayload required"))
     ELSE pc' = [pc EXCEPT ![p] = "r_read"] /\ res' = [res EXCEPT ![p] = None]
  /\ UNCHANGED <<rows, lastInsertRowid, citizens, events, bus>>

RespondRead(p) ==
  /\ pc[p] = "r_read"
  /\ ReadRow(p, "r_write")
  /\ UNCHANGED <<rows, lastInsertRowid, citizens, clock, events, started, bus>>

\* Notes whose new timeline entry is always 'responded', whatever status the
\* UPDATE writes.
RespondNotesResponded(snapRow, body, now) ==
  LET notesObj == [notesToObject(snapRow.notes) EXCEPT
                     !.response = Some([submittedAt |-> now])]
  IN PushTimeline(notesObj, "responded", now)

\* access.ts 450-456
RespondNotes(snapRow, body, now) ==
  LET notesObj == [notesToObject(snapRow.notes) EXCEPT
                     !.response = Some([submittedAt |-> now])]
  IN PushTimeline(notesObj, RespondNextStatus(body), now)

\* UPDATE access_requests SET response_payload = ?, status = ?, responded_at = ?,
\* updated_at = ?, notes = ? WHERE id = ?   (access.ts 458-463)
UpdateResponse(row, responsePayload, status, now, notes) ==
  [row EXCEPT !.response_payload = responsePayload, !.status = status,
              !.responded_at = Some(now), !.updated_at = Some(now), !.notes = notes]

RespondWrite(p) ==
  /\ pc[p] = "r_write"
  /\ rows' = [rows EXCEPT ![h[p].id] =
                UpdateResponse(@, toNullishJSON(h[p].body.responsePayload),
                  RespondNextStatus(h[p].body), h[p].now,
                  serializeNotes(RespondNotes(Get(h[p].snap), h[p].body, h[p].now)))]
  /\ h' = [h EXCEPT ![p].nwrites = @ + 1]
  /\ pc' = [pc EXCEPT ![p] = "r_reread"]
  /\ UNCHANGED <<lastInsertRowid, citizens, clock, events, started, res, bus>>

RespondReread(p) ==
  /\ pc[p] = "r_reread"
  /\ RereadEmit(p)
  /\ UNCHANGED <<rows, lastInsertRowid, citizens, clock, started>>

\* ---- POST /access/:id/evaluate (access.ts 516-638) -------------------------
\* access.ts 520-527
NormalizedResult(body) ==
  IF IsSome(body.result) /\ Get(body.result) \in {"granted", "denied"}
  THEN body.result ELSE None

StartEvaluate(p, id, body) ==
  /\ CanStart(p)
  /\ Arrive
  /\ h' = [h EXCEPT ![p] = Frame("evaluate", id, body)]
  /\ IF IsSome(body.result) /\ ~IsSome(NormalizedResult(body))
     THEN Reply(p, Err(400, "result must be granted or denied"))
     ELSE pc' = [pc EXCEPT ![p] = "e_read"] /\ res' = [res EXCEPT ![p] = None]
  /\ UNCHANGED <<rows, lastInsertRowid, citizens, events, bus>>

\* A handler that goes on to verification when the request holds no response.
EvaluateReadUnguarded(p) ==
  /\ pc[p] = "e_read"
  /\ IF h[p].id \notin DOMAIN rows
     THEN Reply(p, Err(404, "access request not found")) /\ UNCHANGED h
     ELSE /\ h' = [h EXCEPT ![p].snap = Some(rows[h[p].id]),
                            ![p].vcJwt = Some("jwt-none")]
          /\ pc' = [pc EXCEPT ![p] = "e_verify"]
          /\ UNCHANGED res
  /\ UNCHANGED <<rows, lastInsertRowid, citizens, clock, events, started, bus>>

\* access.ts 537-574 up to the credential lookup
EvaluateRead(p) ==
  /\ pc[p] = "e_read"
  /\ IF h[p].id \notin DOMAIN rows
     THEN Reply(p, Err(404, "access request not found")) /\ UNCHANGED h
     ELSE LET requestRow == rows[h[p].id]
              responsePayload == requestRow.response_payload
          IN IF ~IsSome(responsePayload)
             THEN /\ Reply(p, Err(400, "No citizen response available"))
                  /\ h' = [h EXCEPT ![p].snap = Some(requestRow)]
             ELSE IF IsSome(Get(responsePayload).vcJwt)
             THEN /\ h' = [h EXCEPT ![p].snap = Some(requestRow),
                                    ![p].vcJwt = Get(responsePayload).vcJwt]
                  /\ pc' = [pc EXCEPT ![p] = "e_verify"]
                  /\ UNCHANGED res
             ELSE IF IsSome(Get(responsePayload).credentialId)
             THEN /\ h' = [h EXCEPT ![p].snap = Some(requestRow)]
                  /\ pc' = [pc EXCEPT ![p] = "e_lookup"]
                  /\ UNCHANGED res
             ELSE /\ Reply(p, Err(400, "No verifiable credential supplied in response"))
                  /\ h' = [h EXCEPT ![p].snap = Some(requestRow)]
  /\ UNCHANGED <<rows, lastInsertRowid, citizens, clock, events, started, bus>>

\* SELECT vc_jwt FROM credentials WHERE id = ?   (access.ts 562-574)
EvaluateLookup(p) ==
  /\ pc[p] = "e_lookup"
  /\ LET credentialId == Get(Get(Get(h[p].snap).response_payload).credentialId)
     IN IF credentialId \in CredentialIds
        THEN /\ h' = [h EXCEPT ![p].vcJwt = Some(CredentialJwt(credentialId))]
             /\ pc' = [pc EXCEPT ![p] = "e_verify"]
             /\ UNCHANGED res
        ELSE /\ Reply(p, Err(400, "No verifiable credential supplied in response"))
             /\ UNCHANGED h
  /\ UNCHANGED <<rows, lastInsertRowid, citizens, clock, events, started, bus>>

\* access.ts 579-586
DeniedNotes(snapRow, now) ==
  LET notesObj == [notesToObject(snapRow.notes) EXCEPT
                     !.evaluation = Some([status |-> "denied",
                                          reason |-> <<"Credential verification failed">>,
                                          evaluatedAt |-> now,
                                          claimValues |-> None,
                                          condition |-> None])]
  IN PushTimeline(notesObj, "denied", now)

\* A verification-failure branch that lets the caller's override through.
UnverifiedStatusOverride(body) ==
  IF IsSome(body.result) /\ Get(body.result) \in {"granted", "denied"}
  THEN Get(body.result) ELSE "denied"

\* The status written when verification failed (access.ts 588-593)
UnverifiedStatus(body) == "denied"

\* A handler that records the denial before it looks at how verification ended.
EvaluateVerifyEager(p, outcome) ==
  /\ pc[p] = "e_verify"
  /\ CASE outcome = "verified" ->
            /\ h' = [h EXCEPT ![p].verified = Some(TRUE)]
            /\ pc' = [pc EXCEPT ![p] = "e_decode"]
            /\ UNCHANGED <<rows, res>>
       [] OTHER ->
            /\ rows' = [rows EXCEPT ![h[p].id] =
                          UpdateStatusNotes(@, UnverifiedStatus(h[p].body),
                            serializeNotes(DeniedNotes(Get(h[p].snap), h[p].now)), h[p].now)]
            /\ IF outcome = "throws"
               THEN /\ h' = [h EXCEPT ![p].nwrites = @ + 1]
                    /\ Reply(p, Err(500, "failed to update access status"))
               ELSE /\ h' = [h EXCEPT ![p].verified = Some(FALSE), ![p].nwrites = @ + 1]
                    /\ pc' = [pc EXCEPT ![p] = "e_denyread"]
                    /\ UNCHANGED res
  /\ UNCHANGED <<lastInsertRowid, citizens, clock, events, started, bus>>

\* agent.verifyCredential settles (access.ts 576-597)
EvaluateVerify(p, outcome) ==
  /\ pc[p] = "e_verify"
  /\ CASE outcome = "throws" ->
            /\ Reply(p, Err(500, "failed to update access status"))
            /\ UNCHANGED <<rows, h>>
       [] outcome = "unverified" ->
            /\ rows' = [rows EXCEPT ![h[p].id] =
                          UpdateStatusNotes(@, UnverifiedStatus(h[p].body),
                            serializeNotes(DeniedNotes(Get(h[p].snap), h[p].now)), h[p].now)]
            /\ h' = [h EXCEPT ![p].verified = Some(FALSE), ![p].nwrites = @ + 1]
            /\ pc' = [pc EXCEPT ![p] = "e_denyread"]
            /\ UNCHANGED res
       [] OTHER ->
            /\ h' = [h EXCEPT ![p].verified = Some(TRUE)]
            /\ pc' = [pc EXCEPT ![p] = "e_decode"]
            /\ UNCHANGED <<rows, res>>
  /\ UNCHANGED <<lastInsertRowid, citizens, clock, events, started, bus>>

\* access.ts 595-596: the verification-failure branch re-reads and responds
EvaluateDenyRead(p) ==
  /\ pc[p] = "e_denyread"
  /\ Reply(p, Ok(mapAccessRequestRow(rows[h[p].id])))
  /\ UNCHANGED <<rows, lastInsertRowid, citizens, clock, events, started, h, bus>>

\* access.ts 545-552: the stored condition, parsed when it is JSON
StoredCondition(requestRow) ==
  LET parsed == ParseConditionColumn(requestRow.condition)
  IN IF IsSome(parsed) THEN Get(parsed) ELSE requestRow.condition.v

\* access.ts 609
EvaluationStatus(body, evaluation) ==
  IF IsSome(NormalizedResult(body)) THEN Get(NormalizedResult(body))
  ELSE IF evaluation.pass THEN "granted" ELSE "denied"

\* JSON.stringify leaves a function-valued property out of the notes text.
JsonValues(values) ==
  [k \in ValueKeys |-> IF IsSome(values[k]) /\ Get(values[k]).t = "fn" THEN None
                       ELSE values[k]]

\* access.ts 603-621
EvaluationNotes(snapRow, body, subject, now) ==
  LET condition == StoredCondition(snapRow)
      evaluation == evaluateExpression(subject, condition, Some(snapRow.claim))
      evaluationStatus == EvaluationStatus(body, evaluation)
      finalReason == IF IsSome(body.reason) THEN Get(body.reason) ELSE evaluation.reason
      notesObj == [notesToObject(snapRow.notes) EXCEPT
                     !.evaluation = Some([status |-> evaluationStatus,
                                          reason |-> finalReason,
                                          evaluatedAt |-> now,
                                          claimValues |-> Some(JsonValues(evaluation.values)),
                                          condition |-> Some(describeCondition(condition))])]
  IN PushTimeline(notesObj, evaluationStatus, now)

\* agent.decodeJWT settles; evaluation and the UPDATE (access.ts 599-628)
EvaluateDecode(p, subject) ==
  /\ pc[p] = "e_decode"
  /\ LET snapRow == Get(h[p].snap)
         evaluation == evaluateExpression(subject, StoredCondition(snapRow), Some(snapRow.claim))
     IN IF evaluation.throws
        THEN \* caught at access.ts 634-637
             /\ Reply(p, Err(500, "Cannot convert object to primitive value"))
             /\ h' = [h EXCEPT ![p].subject = Some(subject)]
             /\ UNCHANGED rows
        ELSE /\ rows' = [rows EXCEPT ![h[p].id] =
                          UpdateStatusNotes(@, EvaluationStatus(h[p].body, evaluation),
                            serializeNotes(EvaluationNotes(snapRow, h[p].body, subject, h[p].now)),
                            h[p].now)]
             /\ h' = [h EXCEPT ![p].subject = Some(subject), ![p].nwrites = @ + 1]
             /\ pc' = [pc EXCEPT ![p] = "e_reread"]
             /\ UNCHANGED res
  /\ UNCHANGED <<lastInsertRowid, citizens, clock, events, started, bus>>

EvaluateReread(p) ==
  /\ pc[p] = "e_reread"
  /\ RereadEmit(p)
  /\ UNCHANGED <<rows, lastInsertRowid, citizens, clock, started>>

\* ---- GET /access (access.ts 385-430) ---------------------------------------
\* The query strings callers send: by verifier, by citizen, and with neither.
ListQueries ==
  { [Body EXCEPT !.verifierWallet = Some(WalletV)],
    [Body EXCEPT !.citizenWallet = Some(WalletA)],
    Body }

StartList(p, query) ==
  /\ CanStart(p)
  /\ Arrive
  /\ h' = [h EXCEPT ![p] = Frame("list", 0, query)]
  /\ IF ~IsSome(query.citizenWallet) /\ ~IsSome(query.verifierWallet)
     THEN Reply(p, Err(400, "citizenWallet or verifierWallet required"))
     ELSE /\ pc' = [pc EXCEPT ![p] = "l_read"]
          /\ res' = [res EXCEPT ![p] = None]
  /\ UNCHANGED <<rows, lastInsertRowid, citizens, events, bus>>

\* The WHERE clause built from the query (access.ts 401-414).
Matches(row, query) ==
  /\ IsSome(query.citizenWallet) =>
       row.citizen_wallet = normalizeAddress(Get(query.citizenWallet))
  /\ IsSome(query.verifierWallet) =>
       row.verifier_wallet = normalizeAddress(Get(query.verifierWallet))
  /\ IsSome(query.status) => row.status = Get(query.status)

\* ORDER BY created_at DESC, rows of equal created_at in rowid order.
RECURSIVE OrderByCreatedDesc(_)
OrderByCreatedDesc(ids) ==
  IF ids = {} THEN <<>>
  ELSE LET first == CHOOSE i \in ids : \A j \in ids :
                      \/ rows[j].created_at < rows[i].created_at
                      \/ rows[j].created_at = rows[i].created_at /\ i <= j
       IN <<mapAccessRequestRow(rows[first])>> \o OrderByCreatedDesc(ids \ {first})

ListItems(query) == OrderByCreatedDesc({id \in DOMAIN rows : Matches(rows[id], query)})

\* A list handler that publishes the first request it returns.
ListReadPublishing(p) ==
  /\ pc[p] = "l_read"
  /\ LET items == ListItems(h[p].body)
     IN /\ Reply(p, OkItems(items))
        /\ IF items = <<>> THEN UNCHANGED <<events, bus, h>>
           ELSE /\ events' = emitEvent("access_request.updated", items[1])
                /\ bus' = Dispatch(Envelope("access_request.updated", items[1]))
                /\ h' = [h EXCEPT ![p].nemits = @ + 1]
  /\ UNCHANGED <<rows, lastInsertRowid, citizens, clock, started>>

\* The SELECT and the response (access.ts 416-425).
ListRead(p) ==
  /\ pc[p] = "l_read"
  /\ Reply(p, OkItems(ListItems(h[p].body)))
  /\ UNCHANGED <<rows, lastInsertRowid, citizens, clock, events, started, h, bus>>

\* ---- GET /events (routes/events.ts) ----------------------------------------
\* A client connects: its callback is registered (part_010 17-20).
Subscribe(s) ==
  /\ s \notin Range(bus.listeners)
  /\ s \notin bus.closed
  /\ bus' = [bus EXCEPT !.listeners = Append(@, s)]
  /\ UNCHANGED <<rows, lastInsertRowid, citizens, clock, events, started, pc, h, res>>

\* The connection closes: closeHandler unsubscribes (part_010 22-29).
Close(s) ==
  /\ s \in Range(bus.listeners)
  /\ bus' = [bus EXCEPT !.listeners = RemoveListener(@, s), !.closed = @ \cup {s}]
  /\ UNCHANGED <<rows, lastInsertRowid, citizens, clock, events, started, pc, h, res>>

\* ---- calls of the evaluator ---------------------------------------------
\* The arguments evaluateExpression is called with, and its result once it
\* has returned or thrown.
NoCall ==
  [subject |-> Claims(None, None), expression |-> CStr(<<>>),
   fallbackClaim |-> None, result |-> None]

Yes == <<"y", "e", "s">>

EvalSubjects ==
  { Claims(age, vaccination) :
      age \in {None, Some(Num(21)), Some(Num(17)), Some(Str(<<"x">>)),
               Some(Str(<<"1", "8">>)), Some(NoPrim)},
      vaccination \in {None, Some(Str(Yes)), Some(Str(Yes \o <<"!">>))} }

EvalFallbacks == {None, Some(""), Some("age"), Some("vaccination"), Some("toString")}

EvalOps ==
  {None} \cup {Some(op) : op \in NumericOps \cup
                  {"equals", "contains", "startsWith", "endsWith"}}

EvalExpected ==
  {None, Some(Num(18)), Some(Str(<<"1", "8">>)), Some(Str(Yes)), Some(Str(<<>>)),
   Some(NoPrim)}

ScalarProbes ==
  { CScalar(claim, op, value) :
      claim \in {None, Some("age"), Some("toString")}, op \in EvalOps,
      value \in EvalExpected }

LiteralProbes == { CStr(Yes), CStr(<<"1", "8">>), CStr(<<"x">>) }

\* The nodes the child lists are made of.
ChildProbes ==
  { CScalar(Some("age"), Some(">="), Some(Num(18))),
    CScalar(None, Some("<"), Some(Num(18))),
    CScalar(Some("vaccination"), Some("equals"), Some(Str(Yes))),
    CScalar(Some("age"), Some("startsWith"), Some(Str(<<"x">>))),
    CStr(Yes) }

ChildLists == UNION { [1..n -> ChildProbes] : n \in 0..MaxChildren }

NestedProbes ==
  { CAll(<<CAny(kids), CScalar(Some("age"), Some(">="), Some(Num(18)))>>) :
      kids \in UNION { [1..n -> ChildProbes] : n \in 0..1 } }
  \cup
  { CAny(<<CAll(kids), CStr(Yes)>>) :
      kids \in UNION { [1..n -> ChildProbes] : n \in 0..1 } }

EvalExpressions ==
  ScalarProbes \cup LiteralProbes \cup NestedProbes
  \cup { CAll(kids) : kids \in ChildLists } \cup { CAny(kids) : kids \in ChildLists }

\* evaluateExpression is called and returns (or throws).
EvaluateCall ==
  /\ call.result = None
  /\ call' = [call EXCEPT !.result =
                Some(evaluateExpression(call.subject, call.expression, call.fallbackClaim))]
  /\ UNCHANGED <<rows, lastInsertRowid, citizens, clock, events, started, pc, h, res, bus>>

\* ---- the system --------------------------------------------------------------
\* The database file outlives the server process (the tables are created IF
\* NOT EXISTS): the server starts on an empty table, or on a table an earlier
\* run left: holding the request POST /access/request made of CreateBody1 (or
\* of CreateBodyLiteral) at time 1, as it was then or as POST
\* /access/:id/respond left it when it was answered with RespondBody1 at time 2.
CreatedRow == NewRow(1, CreateBody1, Get(PrimaryClaim(CreateBody1)), 1)
RespondedRow ==
  UpdateResponse(CreatedRow, toNullishJSON(RespondBody1.responsePayload),
    RespondNextStatus(RespondBody1), 2,
    serializeNotes(RespondNotes(CreatedRow, RespondBody1, 2)))
LiteralRow == NewRow(1, CreateBodyLiteral, Get(PrimaryClaim(CreateBodyLiteral)), 1)
LiteralRespondedRow ==
  UpdateResponse(LiteralRow, toNullishJSON(RespondBody1.responsePayload),
    RespondNextStatus(RespondBody1), 2,
    serializeNotes(RespondNotes(LiteralRow, RespondBody1, 2)))

Init ==
  /\ \/ rows = <<>> /\ citizens = {} /\ clock = 0
     \/ rows = <<CreatedRow>> /\ citizens = {CreatedRow.citizen_wallet} /\ clock = 1
     \/ rows = <<RespondedRow>> /\ citizens = {RespondedRow.citizen_wallet} /\ clock = 2
     \/ /\ rows = <<LiteralRespondedRow>>
        /\ citizens = {LiteralRespondedRow.citizen_wallet}
        /\ clock = 2
  /\ lastInsertRowid = 0
  /\ events = <<>>
  /\ started = 0
  /\ pc = [p \in Procs |-> "idle"]
  /\ h = [p \in Procs |-> IdleFrame]
  /\ res = [p \in Procs |-> None]
  /\ call = NoCall
  /\ bus = NoBus

\* The requests callers send: any body for a stored id, and one request that
\* names an id that is not stored.
Requests(bodies, body) ==
  [id : StoredIds, body : bodies] \cup {[id |-> UnknownId, body |-> body]}

Arrival(p) ==
  \/ \E body \in CreateBodies : StartCreate(p, body)
  \/ \E r \in Requests(ChallengeBodies, ChallengeBody1) : StartChallenge(p, r.id, r.body)
  \/ \E r \in Requests(RespondBodies, RespondBody1) : StartRespond(p, r.id, r.body)
  \/ \E r \in Requests(EvaluateBodies, Body) : StartEvaluate(p, r.id, r.body)
  \/ \E query \in ListQueries : StartList(p, query)

Step(p) ==
  \/ ListRead(p)
  \/ CreateInsert(p)
  \/ CreateReread(p)
  \/ ChallengeRead(p)
  \/ ChallengeWrite(p)
  \/ ChallengeReread(p)
  \/ RespondRead(p)
  \/ RespondWrite(p)
  \/ RespondReread(p)
  \/ EvaluateRead(p)
  \/ EvaluateLookup(p)
  \/ \E outcome \in VerifyOutcomes : EvaluateVerify(p, outcome)
  \/ EvaluateDenyRead(p)
  \/ \E subject \in DecodedSubjects : EvaluateDecode(p, subject)
  \/ EvaluateReread(p)

\* Requests arrive while others are in flight.
Next == \E p \in Procs : (Arrival(p) \/ Step(p)) /\ UNCHANGED call

Spec == Init /\ [][Next]_vars

\* One request at a time: a request arrives only when no handler is in flight.
SeqNext ==
  \E p \in Procs :
    (((\A q \in Procs : Free(q)) /\ Arrival(p)) \/ Step(p)) /\ UNCHANGED call

SeqSpec == Init /\ [][SeqNext]_vars


\* The evaluator on its own: any call of the probe sets.
EvalInit ==
  /\ rows = <<>> /\ citizens = {} /\ clock = 0
  /\ lastInsertRowid = 0
  /\ events = <<>>
  /\ started = 0
  /\ pc = [p \in Procs |-> "idle"]
  /\ h = [p \in Procs |-> IdleFrame]
  /\ res = [p \in Procs |-> None]
  /\ call \in [subject : EvalSubjects, expression : EvalExpressions,
               fallbackClaim : EvalFallbacks, result : {None}]
  /\ bus = NoBus

EvalNext == EvaluateCall

EvalSpec == EvalInit /\ [][EvalNext]_vars


\* The bus and its subscribers: connections open and close while requests are
\* handled one at a time; any set of subscribers may have a callback that
\* throws.
BusInit ==
  /\ \/ rows = <<>> /\ citizens = {} /\ clock = 0
     \/ rows = <<CreatedRow>> /\ citizens = {CreatedRow.citizen_wallet} /\ clock = 1
  /\ lastInsertRowid = 0
  /\ events = <<>>
  /\ started = 0
  /\ pc = [p \in Procs |-> "idle"]
  /\ h = [p \in Procs |-> IdleFrame]
  /\ res = [p \in Procs |-> None]
  /\ call = NoCall
  /\ bus \in {[NoBus EXCEPT !.faulty = f] : f \in SUBSET Subs}

BusArrival(p) ==
  \/ StartCreate(p, CreateBody1)
  \/ \E r \in Requests({ChallengeBody1}, ChallengeBody1) : StartChallenge(p, r.id, r.body)
  \/ \E r \in Requests({RespondBody1}, RespondBody1) : StartRespond(p, r.id, r.body)
  \/ \E query \in ListQueries : StartList(p, query)

BusStep(p) ==
  \/ ListRead(p)
  \/ CreateInsert(p)
  \/ CreateReread(p)
  \/ ChallengeRead(p)
  \/ ChallengeWrite(p)
  \/ ChallengeReread(p)
  \/ RespondRead(p)
  \/ RespondWrite(p)
  \/ RespondReread(p)

BusNext ==
  \/ \E p \in Procs :
       (((\A q \in Procs : Free(q)) /\ BusArrival(p)) \/ BusStep(p)) /\ UNCHANGED call
  \/ \E s \in Subs : (Subscribe(s) \/ Close(s)) /\ UNCHANGED call

BusSpec == BusInit /\ [][BusNext]_vars


\* POST /access/request on its own, one request at a time, on any body of
\* CreateProbes.
CreateInit ==
  /\ rows = <<>> /\ citizens = {} /\ clock = 0
  /\ lastInsertRowid = 0
  /\ events = <<>>
  /\ started = 0
  /\ pc = [p \in Procs |-> "idle"]
  /\ h = [p \in Procs |-> IdleFrame]
  /\ res = [p \in Procs |-> None]
  /\ call = NoCall
  /\ bus = NoBus

CreateNext ==
  \E p \in Procs :
    /\ \/ (\A q \in Procs : Free(q)) /\ \E body \in CreateProbes : StartCreate(p, body)
       \/ CreateInsert(p)
       \/ CreateReread(p)
    /\ UNCHANGED call

CreateSpec == CreateInit /\ [][CreateNext]_vars


\* ---- what the checks observe --------------------------------------------------
Statuses == {"requested", "challenge_sent", "responded", "granted", "denied"}
Terminal == {"granted", "denied"}
Mutating == {"challenge", "respond", "evaluate"}

\* Requested < ChallengeSent < Responded < {Granted, Denied}
Rank(status) ==
  CASE status = "requested" -> 1
    [] status = "challenge_sent" -> 2
    [] status = "responded" -> 3
    [] status \in Terminal -> 4
    [] OTHER -> 0

Timeline(row) ==
  LET notesObj == notesToObject(row.notes)
  IN IF IsSome(notesObj.timeline) THEN Get(notesObj.timeline) ELSE <<>>

\* In this step handler p sent its response / executed its INSERT or UPDATE.
Replied(p) == pc'[p] = "done" /\ (pc[p] # "done" \/ h'[p].now # h[p].now)
Wrote(p) == h'[p].nwrites = h[p].nwrites + 1

Succeeded(p) == pc[p] = "done" /\ IsSome(res[p]) /\ Get(res[p]).code = 200
Failed(p) == pc[p] = "done" /\ IsSome(res[p]) /\ Get(res[p]).code # 200

\* The notes sub-record an operation owns is present in the stored notes.
HasSubRecord(row, kind) ==
  LET notesObj == notesToObject(row.notes)
  IN CASE kind = "challenge" -> IsSome(notesObj.challenge)
       [] kind = "respond" -> IsSome(notesObj.response)
       [] OTHER -> IsSome(notesObj.evaluation)

HasEntryAt(row, now) == \E i \in 1..Len(Timeline(row)) : Timeline(row)[i].at = now

\* ---- C1 ------------------------------------------------------------------------
\* C1: once the status of a request is granted or denied, no step of any
\* handler changes it again.
C1_TerminalIsFinal ==
  [][\A id \in DOMAIN rows :
       rows[id].status \in Terminal => rows'[id].status = rows[id].status]_vars

\* ---- C2 ------------------------------------------------------------------------
\* C2: the status of a request never moves backward in the order
\* requested < challenge_sent < responded < {granted, denied}.
C2_StatusNeverBackward ==
  [][\A id \in DOMAIN rows : Rank(rows'[id].status) >= Rank(rows[id].status)]_vars

\* ---- C3 ------------------------------------------------------------------------
\* C3: two Evaluate calls on the same id that both read the same version of
\* the row never both write and both report success.
C3_OneEvaluateWins ==
  \A p, q \in Procs :
    (/\ p # q
     /\ h[p].kind = "evaluate" /\ h[q].kind = "evaluate"
     /\ h[p].id = h[q].id
     /\ IsSome(h[p].snap) /\ h[p].snap = h[q].snap
     /\ h[p].nwrites = 1 /\ h[q].nwrites = 1)
    => ~(Succeeded(p) /\ Succeeded(q))

\* ---- C4 ------------------------------------------------------------------------
\* C4: when two overlapping operations on the same id have both written and
\* both reported success, the stored notes hold the timeline entry and the
\* sub-record of each of them.
C4_NoLostUpdate ==
  \A p, q \in Procs :
    (/\ p # q
     /\ h[p].kind \in Mutating /\ h[q].kind \in Mutating
     /\ h[p].id = h[q].id
     /\ h[p].nwrites = 1 /\ h[q].nwrites = 1
     /\ Succeeded(p) /\ Succeeded(q))
    => /\ HasEntryAt(rows[h[p].id], h[p].now)
       /\ HasEntryAt(rows[h[p].id], h[q].now)
       /\ HasSubRecord(rows[h[p].id], h[p].kind)
       /\ HasSubRecord(rows[h[p].id], h[q].kind)

\* ---- C5 ------------------------------------------------------------------------
\* C5: the write of an Evaluate whose verifyCredential returned verified=false
\* sets status denied and an evaluation record {denied, "Credential
\* verification failed"} without claimValues and condition, whatever the
\* override in the request body.
C5_VerificationFailureDenies ==
  [][\A p \in Procs :
       (h[p].kind = "evaluate" /\ h[p].verified = None /\ h'[p].verified = Some(FALSE))
       => LET row == rows'[h[p].id]
              evaluation == notesToObject(row.notes).evaluation
          IN /\ row.status = "denied"
             /\ IsSome(evaluation)
             /\ Get(evaluation).status = "denied"
             /\ Get(evaluation).reason = <<"Credential verification failed">>
             /\ Get(evaluation).evaluatedAt = h[p].now
             /\ Get(evaluation).claimValues = None
             /\ Get(evaluation).condition = None]_vars

\* An Evaluate with the override "granted" whose credential failed to verify
\* has responded with success and the request is denied.
C5_Witness ==
  \E p \in Procs :
    /\ h[p].kind = "evaluate" /\ Succeeded(p)
    /\ h[p].verified = Some(FALSE)
    /\ h[p].body.result = Some("granted")
    /\ rows[h[p].id].status = "denied"

C7_StructuralErrorsDoNotMutate ==
  [][\A p \in Procs :
       (Replied(p) /\ Get(res'[p]).code \in {400, 404})
       => rows' = rows /\ h'[p].nwrites = 0]_vars

\* An Evaluate was refused for want of a resolvable credential, with the
\* stored request as the handler read it.
C7_Witness ==
  \E p \in Procs :
    /\ h[p].kind = "evaluate" /\ Failed(p)
    /\ Get(res[p]).error = "No verifiable credential supplied in response"
    /\ rows[h[p].id] = Get(h[p].snap)

\* ---- C8 ------------------------------------------------------------------------
\* C8: with one request handled at a time, every step that changes a stored
\* request appends exactly one timeline entry and keeps the earlier entries
\* as a prefix, and a successful Challenge, Respond or Evaluate has written once.
C8_TimelineAppendOnly ==
  [][/\ \A id \in DOMAIN rows :
          rows'[id] # rows[id]
          => /\ Len(Timeline(rows'[id])) = Len(Timeline(rows[id])) + 1
             /\ SubSeq(Timeline(rows'[id]), 1, Len(Timeline(rows[id]))) = Timeline(rows[id])
     /\ \A p \in Procs :
          (Replied(p) /\ Get(res'[p]).code = 200 /\ h[p].kind \in Mutating)
          => h'[p].nwrites = 1]_vars

\* A third entry has been appended to the two the request had.
C8_Witness ==
  \E p \in Procs :
    /\ h[p].kind \in Mutating /\ Succeeded(p)
    /\ Len(Timeline(rows[h[p].id])) = 3
    /\ Len(Timeline(Get(h[p].snap))) = 2

\* ---- C9 ------------------------------------------------------------------------
\* C9: every stored status is one of the five states, and the write of a
\* Respond leaves the status responded.
C9_StatusIsAState ==
  [][/\ \A id \in DOMAIN rows' : rows'[id].status \in Statuses
     /\ \A p \in Procs :
          (h[p].kind = "respond" /\ Wrote(p)) => rows'[h[p].id].status = "responded"]_vars

\* ---- C10 -----------------------------------------------------------------------
\* C10: every step that changes a stored request is the single write of one
\* operation and sets status, notes (with the timeline entry of that status)
\* and updatedAt together; an operation that answers with an error has written
\* nothing.
C10_AtomicMutation ==
  [][/\ \A id \in DOMAIN rows :
          rows'[id] # rows[id]
          => \E p \in Procs :
               /\ h[p].id = id /\ Wrote(p) /\ h'[p].nwrites = 1
               /\ rows'[id].updated_at = Some(h[p].now)
               /\ HasSubRecord(rows'[id], h[p].kind)
               /\ Timeline(rows'[id]) # <<>>
               /\ Timeline(rows'[id])[Len(Timeline(rows'[id]))]
                    = [state |-> rows'[id].status, at |-> h[p].now]
     /\ \A p \in Procs :
          (Replied(p) /\ Get(res'[p]).code # 200) => (rows' = rows /\ h'[p].nwrites = 0)]_vars

\* A handler is between its UPDATE and its closing SELECT, and the row carries
\* its timestamp.
C10_Witness ==
  \E p \in Procs :
    /\ pc[p] \in {"h_reread", "r_reread", "e_reread", "e_denyread"}
    /\ rows[h[p].id].updated_at = Some(h[p].now)
    /\ rows[h[p].id].status # Get(h[p].snap).status

\* ---- C11 -----------------------------------------------------------------------
\* C11: an Evaluate whose verifyCredential call has not returned a verdict has
\* written nothing and published nothing: every step it takes up to and
\* including a call that throws leaves the table and the events as they were,
\* and while it waits for the call its write and event counts are zero.
C11_NoWriteBeforeVerification ==
  [][\A p \in Procs :
       /\ (h[p].kind = "evaluate" /\ pc[p] = "e_verify")
          => (h[p].nwrites = 0 /\ h[p].nemits = 0)
       /\ (/\ h[p].kind = "evaluate"
           /\ pc[p] \in {"e_read", "e_lookup", "e_verify"}
           /\ pc'[p] # pc[p]
           /\ h'[p].verified = None)
          => /\ rows' = rows
             /\ events' = events
             /\ h'[p].nwrites = 0
             /\ h'[p].nemits = 0]_vars

\* verifyCredential threw: the handler answered 500 and the request is as the
\* handler read it.
C11_Witness ==
  \E p \in Procs :
    /\ h[p].kind = "evaluate" /\ Failed(p)
    /\ Get(res[p]).code = 500
    /\ h[p].verified = None
    /\ h[p].vcJwt # None
    /\ rows[h[p].id] = Get(h[p].snap)
    /\ events = <<>>

\* ---- C12 -----------------------------------------------------------------------
\* C12: when the credential has verified, the step that ends the evaluation
\* stores the caller's result if it is granted or denied, else granted exactly
\* when the evaluator passes on (decoded claims, stored condition, claim of
\* the request) and denied otherwise; notes.evaluation holds that status, the
\* caller's reason if given else the evaluator's, and the evaluator's values.
C12_EvaluationDecides ==
  [][\A p \in Procs :
       (h[p].kind = "evaluate" /\ pc[p] = "e_decode" /\ pc'[p] # pc[p])
       => LET requestRow == Get(h[p].snap)
              body == h[p].body
              evaluation == evaluateExpression(Get(h'[p].subject), requestRow.condition.v,
                                               Some(requestRow.claim))
              status == IF IsSome(body.result) /\ Get(body.result) \in Terminal
                        THEN Get(body.result)
                        ELSE IF evaluation.pass THEN "granted" ELSE "denied"
              recorded == notesToObject(rows'[h[p].id].notes).evaluation
          IN /\ rows'[h[p].id].status = status
             /\ IsSome(recorded)
             /\ Get(recorded).status = status
             /\ Get(recorded).reason =
                  (IF IsSome(body.reason) THEN Get(body.reason) ELSE evaluation.reason)
             /\ Get(recorded).claimValues = Some(evaluation.values)]_vars

\* ---- C13 -----------------------------------------------------------------------
\* C13: once responded_at of a request is set, no step changes it.
C13_RespondedAtSetOnce ==
  [][\A id \in DOMAIN rows :
       IsSome(rows[id].responded_at) => rows'[id].responded_at = rows[id].responded_at]_vars

\* ---- C14 -----------------------------------------------------------------------
RECURSIVE NoEmptyList(_)
NoEmptyList(condition) ==
  condition.tag \in {"all", "any"}
  => /\ condition.kids # <<>>
     /\ \A i \in 1..Len(condition.kids) : NoEmptyList(condition.kids[i])

\* C14: no stored condition holds an all or any node with an empty list of
\* children, at any depth.
C14_StoredConditionsValid ==
  \A id \in DOMAIN rows : NoEmptyList(rows[id].condition.v)

\* ---- C15 -----------------------------------------------------------------------
UpperChars == {"A", "B", "C", "D", "E", "F", "X"}
CasePairs ==
  { <<"A", "a">>, <<"B", "b">>, <<"C", "c">>, <<"D", "d">>, <<"E", "e">>,
    <<"F", "f">>, <<"X", "x">> }

\* stored is given with every upper-case letter replaced by its lower-case one
LowerCaseOf(stored, given) ==
  /\ Len(stored) = Len(given)
  /\ \A i \in 1..Len(stored) :
       /\ stored[i] \notin UpperChars
       /\ stored[i] = given[i] \/ <<given[i], stored[i]>> \in CasePairs

\* C15: the INSERT of a Create adds one row, after the rows there were, with
\* status requested, the timeline <<{requested, now}>>, no response payload,
\* no responded_at and both wallets in lower case; a Create that answers 200
\* has executed that INSERT once.
C15_CreateStoresRequested ==
  [][\A p \in Procs :
       /\ (h[p].kind = "create" /\ Wrote(p))
          => LET row == rows'[Len(rows')]
             IN /\ Len(rows') = Len(rows) + 1
                /\ SubSeq(rows', 1, Len(rows)) = rows
                /\ row.status = "requested"
                /\ Timeline(row) = <<[state |-> "requested", at |-> h[p].now]>>
                /\ row.response_payload = None
                /\ row.responded_at = None
                /\ LowerCaseOf(row.citizen_wallet, Get(h[p].body.citizenWallet))
                /\ LowerCaseOf(row.verifier_wallet, Get(h[p].body.verifierWallet))
       /\ (h'[p].kind = "create" /\ Replied(p) /\ Get(res'[p]).code = 200)
          => h'[p].nwrites = 1]_vars

\* A Create with wallets written in mixed case has answered 200 and its row
\* is stored.
C15_Witness ==
  \E p \in Procs :
    /\ h[p].kind = "create" /\ Succeeded(p)
    /\ Get(h[p].body.citizenWallet) = WalletA
    /\ rows # <<>>
    /\ rows[Len(rows)].created_at = h[p].now
    /\ rows[Len(rows)].citizen_wallet = <<"0", "x", "a", "b", "1">>
    /\ rows[Len(rows)].verifier_wallet = <<"0", "x", "c", "d", "2">>

\* ---- C16 -----------------------------------------------------------------------
Blank == {"", " "}

\* The claims of the scalar nodes of a condition in depth-first, left-to-right
\* order, blank ones left out.
RECURSIVE ClaimsInOrder(_)
RECURSIVE ClaimsOfList(_)
ClaimsOfList(kids) ==
  IF kids = <<>> THEN <<>> ELSE ClaimsInOrder(Head(kids)) \o ClaimsOfList(Tail(kids))
ClaimsInOrder(condition) ==
  CASE condition.tag = "scalar" ->
         IF IsSome(condition.claim) /\ Get(condition.claim) \notin Blank
         THEN <<Get(condition.claim)>> ELSE <<>>
    [] condition.tag \in {"all", "any"} -> ClaimsOfList(condition.kids)
    [] OTHER -> <<>>

\* C16: the step of a Create that decides the claim stores the claim field of
\* the body when it is a non-blank string, else the first claim of the
\* condition in depth-first order, and answers 400 without storing anything
\* when there is neither; no stored request has an empty claim.
C16_ClaimDerivation ==
  [][/\ \A p \in Procs :
          (h[p].kind = "create" /\ pc[p] = "c_insert" /\ pc'[p] # pc[p])
          => LET body == h[p].body
                 walk == ClaimsInOrder(Get(body.condition))
             IN IF IsSome(body.claim) /\ Get(body.claim) \notin Blank
                THEN Wrote(p) /\ rows'[Len(rows')].claim = Get(body.claim)
                ELSE IF walk # <<>>
                THEN Wrote(p) /\ rows'[Len(rows')].claim = walk[1]
                ELSE /\ rows' = rows
                     /\ res'[p] = Some(Err(400, "Unable to determine claim for access request"))
     /\ \A id \in DOMAIN rows' : rows'[id].claim \notin Blank]_vars

\* A request was stored under a claim found inside a nested list, past nodes
\* without a claim.
C16_Witness ==
  \E p \in Procs :
    /\ h[p].kind = "create" /\ Succeeded(p)
    /\ ~IsSome(h[p].body.claim)
    /\ Get(h[p].body.condition).tag = "all"
    /\ rows # <<>>
    /\ rows[Len(rows)].created_at = h[p].now
    /\ rows[Len(rows)].claim = "vaccination"

\* ---- C17 -----------------------------------------------------------------------
\* The result of evaluating child i of the list node of the call, with the
\* claim of the child if it has one and the fallback claim of the call otherwise.
ChildResult(i) ==
  LET entry == call.expression.kids[i]
  IN evaluateExpression(call.subject, entry,
                        IF IsSome(entry.claim) THEN entry.claim ELSE call.fallbackClaim)

\* C17: a call on an all node passes exactly when every child passes, a call
\* on an any node exactly when some child passes, for lists of every length
\* from 0 to MaxChildren; the call throws exactly when a child throws.
C17_AllAnyAlgebra ==
  (IsSome(call.result) /\ call.expression.tag \in {"all", "any"})
  => LET result == Get(call.result)
         n == Len(call.expression.kids)
     IN /\ result.throws = (\E i \in 1..n : ChildResult(i).throws)
        /\ ~result.throws
           => result.pass = (IF call.expression.tag = "all"
                             THEN \A i \in 1..n : ChildResult(i).pass
                             ELSE \E i \in 1..n : ChildResult(i).pass)

\* An any node of two children, one that fails and one that passes, has passed.
C17_Witness ==
  /\ IsSome(call.result)
  /\ call.expression.tag = "any"
  /\ Len(call.expression.kids) = 2
  /\ ~ChildResult(1).pass /\ ~ChildResult(1).throws
  /\ ChildResult(2).pass
  /\ Get(call.result).pass

\* ---- C18 -----------------------------------------------------------------------
\* The claim a scalar node of the call resolves to.
ResolvedClaim == IF IsSome(call.expression.claim) THEN call.expression.claim
                 ELSE call.fallbackClaim
InClaims(subject, key) == key \in ClaimNames /\ IsSome(subject[key])

\* C18: no call throws; a scalar without claim and without fallback fails with
\* "No claim specified", and a scalar whose claim is not in the claims map
\* fails with "Claim ... not present".
C18_EvaluatorTotal ==
  IsSome(call.result)
  => LET result == Get(call.result)
     IN /\ ~result.throws
        /\ result.pass \in BOOLEAN
        /\ (call.expression.tag = "scalar" /\ ~IsSome(ResolvedClaim))
           => /\ ~result.pass
              /\ result.reason = <<"No claim specified for condition">>
        /\ (/\ call.expression.tag = "scalar"
            /\ IsSome(ResolvedClaim) /\ Get(ResolvedClaim) # ""
            /\ ~InClaims(call.subject, Get(ResolvedClaim)))
           => /\ ~result.pass
              /\ result.reason = <<"Claim ", Get(ResolvedClaim), " not present in credential">>

\* ---- C19 -----------------------------------------------------------------------
\* The number a value coerces to, if it does.
Coerced(v) == IF v.t \in {"num", "str"} THEN toNumber(v) ELSE None

\* C19: a call on a scalar with a numeric operator whose claim is in the
\* claims map does not throw, passes exactly when claim value and expected
\* value both coerce to numbers that stand in the relation, and gives the
\* non-numeric reason naming the operator when one of them does not coerce.
C19_NumericComparison ==
  (/\ IsSome(call.result)
   /\ call.expression.tag = "scalar"
   /\ IsSome(call.expression.op) /\ Get(call.expression.op) \in {">=", ">", "<=", "<"}
   /\ IsSome(ResolvedClaim) /\ InClaims(call.subject, Get(ResolvedClaim)))
  => LET result == Get(call.result)
         op == Get(call.expression.op)
         a == Coerced(Get(call.subject[Get(ResolvedClaim)]))
         e == IF IsSome(call.expression.value) THEN Coerced(Get(call.expression.value))
              ELSE None
         numeric == IsSome(a) /\ IsSome(e)
     IN /\ ~result.throws
        /\ result.pass = (numeric /\ CASE op = ">=" -> Get(a) >= Get(e)
                                        [] op = ">"  -> Get(a) > Get(e)
                                        [] op = "<=" -> Get(a) <= Get(e)
                                        [] OTHER     -> Get(a) < Get(e))
        /\ ~numeric
           => result.reason = <<Get(ResolvedClaim), ": ",
                                "Non-numeric comparison for ", op, " operator">>

\* ---- C20 -----------------------------------------------------------------------
\* C20: a call on a string condition gives the pass, values and exception of
\* the call on the scalar {claim: fallbackClaim, op: equals, value: the
\* string}; it passes exactly when the claims map holds that string under the
\* fallback claim, and fails when there is no fallback claim.
C20_LiteralIsEquals ==
  (IsSome(call.result) /\ call.expression.tag = "str")
  => LET result == Get(call.result)
         scalar == evaluateExpression(call.subject,
                     CScalar(call.fallbackClaim, Some("equals"), call.expression.value), None)
     IN /\ result.pass = scalar.pass
        /\ result.values = scalar.values
        /\ result.throws = scalar.throws
        /\ ~result.throws
           => result.pass = (/\ IsSome(call.fallbackClaim)
                             /\ InClaims(call.subject, Get(call.fallbackClaim))
                             /\ call.subject[Get(call.fallbackClaim)] = call.expression.value)
        /\ NoClaim(call.fallbackClaim) => ~result.pass

\* The call ({vaccination: "yes"}, "yes", fallback "vaccination") has passed.
C20_Witness ==
  /\ IsSome(call.result)
  /\ call.expression = CStr(Yes)
  /\ call.fallbackClaim = Some("vaccination")
  /\ call.subject.vaccination = Some(Str(Yes))
  /\ Get(call.result).pass
  /\ Get(call.result).values["vaccination"] = Some(Str(Yes))


\* ---- C21 -----------------------------------------------------------------------
\* C21: an envelope is handed at most once to a subscriber, and only to the
\* subscribers registered when it is published: a subscriber's inbox changes
\* only in the step that publishes an envelope, by that one envelope, and only
\* if the subscriber is registered then and its connection has not closed. So a
\* subscriber that registers later never gets an earlier envelope, and one that
\* has unsubscribed gets no later one.
C21_DeliveryAtMostOnce ==
  [][\A s \in Subs :
       \/ bus'.inbox[s] = bus.inbox[s]
       \/ /\ Len(events') = Len(events) + 1
          /\ bus'.inbox[s] = Append(bus.inbox[s], events'[Len(events')])
          /\ s \in Range(bus.listeners)
          /\ s \notin bus.closed]_vars

\* Two envelopes were published; one subscriber registered after the first and
\* holds the second alone, another closed after the first and holds it alone.
C21_Witness ==
  /\ Len(events) = 2
  /\ \E s \in Subs : bus.inbox[s] = <<events[2]>> /\ s \in Range(bus.listeners)
  /\ \E t \in Subs : bus.inbox[t] = <<events[1]>> /\ t \in bus.closed

\* ---- C22 -----------------------------------------------------------------------
\* The step in which handler p publishes an envelope and answers.
Publishes(p) == Len(events') = Len(events) + 1 /\ pc[p] # "done" /\ pc'[p] = "done"

C22_HealthySubscribers ==
  [][bus.faulty = {} =>
       \A p \in Procs :
         Publishes(p) =>
           /\ Get(res'[p]).code = 200
           /\ \A s \in Range(bus.listeners) :
                bus'.inbox[s] = Append(bus.inbox[s], events'[Len(events')])]_vars

\* ---- C23 -----------------------------------------------------------------------
\* C23: an operation that reads only, or that fails, publishes nothing: the
\* step in which a handler answers with an error leaves the published
\* envelopes as they were and that handler has called emitEvent at no earlier
\* step either, and no step of a list handler publishes.
C23_NoEventWithoutChange ==
  [][\A p \in Procs :
       /\ (Replied(p) /\ Get(res'[p]).code # 200) =>
            events' = events /\ h'[p].nemits = 0
       /\ (h'[p].kind = "list" /\ (pc'[p] # pc[p] \/ h'[p] # h[p])) =>
            events' = events /\ h'[p].nemits = 0]_vars

\* A list request was answered with a stored request and another operation
\* failed, and nothing has been published.
C23_Witness ==
  /\ events = <<>>
  /\ \E p \in Procs :
       h[p].kind = "list" /\ Succeeded(p) /\ Get(res[p]).items # <<>>
  /\ \E q \in Procs : h[q].kind \in Mutating \cup {"create"} /\ Failed(q)

\* ---- C24 -----------------------------------------------------------------------
\* C24: what is read back is what was written: the request a successful Create
\* answers with carries the condition of its body, and every stored request
\* maps to a record whose condition is the condition that was stored and whose
\* notes are the notes object that was serialised.
C24_RoundTripLossless ==
  /\ \A p \in Procs :
       (h[p].kind = "create" /\ Succeeded(p)) =>
         Get(Get(res[p]).request).condition = h[p].body.condition
  /\ \A id \in DOMAIN rows :
       /\ mapAccessRequestRow(rows[id]).condition = Some(rows[id].condition.v)
       /\ serializeNotes(notesToObject(mapAccessRequestRow(rows[id]).notes)) = rows[id].notes

\* The same for the conditions that are trees, one request at a time.
C24_TreesRoundTrip ==
  /\ \A p \in Procs :
       (h[p].kind = "create" /\ Succeeded(p) /\ Get(h[p].body.condition).tag # "str") =>
         Get(Get(res[p]).request).condition = h[p].body.condition
  /\ \A id \in DOMAIN rows :
       rows[id].condition.json =>
         mapAccessRequestRow(rows[id]).condition = Some(rows[id].condition.v)

\* ---- C25 -----------------------------------------------------------------------
\* The copy of request id held by an observer that has been subscribed all
\* along and replaces its copy with the payload of every envelope it is handed
\* (VerifierDashboard.tsx 49-59, 90-108): the payload of the latest envelope
\* about id.
EventsAbout(id) == {i \in DOMAIN events : events[i].data.id = id}
Max(S) == CHOOSE i \in S : \A j \in S : j <= i
ObserverCopy(id) == events[Max(EventsAbout(id))].data
Quiescent == \A p \in Procs : Free(p)

\* C25: whenever no operation is in flight, the observer's copy of a request
\* it has been told about equals the stored request: same status, same
\* timeline.
C25_ObserverConverges ==
  Quiescent =>
    \A id \in DOMAIN rows :
      EventsAbout(id) # {} =>
        /\ ObserverCopy(id).status = rows[id].status
        /\ ObserverCopy(id).notes = rows[id].notes

\* The same as long as no evaluation was refused for an unverified credential
\* and handlers do not overlap.
C25_ConvergesWhenVerified ==
  (Quiescent /\ \A id \in DOMAIN rows :
                  LET evaluation == notesToObject(rows[id].notes).evaluation
                  IN ~(IsSome(evaluation)
                       /\ Get(evaluation).reason = <<"Credential verification failed">>)) =>
    \A id \in DOMAIN rows :
      EventsAbout(id) # {} =>
        /\ ObserverCopy(id).status = rows[id].status
        /\ ObserverCopy(id).notes = rows[id].notes

\* ---- C26 -----------------------------------------------------------------------
\* The notes keys an operation leaves to the others.
Foreign(kind) ==
  CASE kind = "challenge" -> {"policy", "initialMessage", "response", "evaluation"}
    [] kind = "respond" -> {"policy", "initialMessage", "challenge", "evaluation"}
    [] OTHER -> {"policy", "initialMessage", "challenge", "response"}

\* The UPDATE of handler p changes its own request only, leaves the fields that
\* are fixed at creation, and leaves the notes keys it does not own as the
\* table held them.
FrameKept(p) ==
  (h[p].kind \in Mutating /\ Wrote(p)) =>
    /\ DOMAIN rows' = DOMAIN rows
    /\ \A id \in DOMAIN rows : id # h[p].id => rows'[id] = rows[id]
    /\ LET old == rows[h[p].id]
           new == rows'[h[p].id]
       IN /\ new.id = old.id
          /\ new.created_at = old.created_at
          /\ new.claim = old.claim
          /\ new.condition = old.condition
          /\ new.citizen_wallet = old.citizen_wallet
          /\ new.verifier_wallet = old.verifier_wallet
          /\ \A k \in Foreign(h[p].kind) :
               notesToObject(new.notes)[k] = notesToObject(old.notes)[k]

\* C26: the write of a Challenge, a Respond or an Evaluate leaves id,
\* createdAt, claim, condition and the wallets of its request unchanged, leaves
\* every other request untouched, and keeps the notes sub-records the
\* operation does not own.
C26_FrameOfMutations == [][\A p \in Procs : FrameKept(p)]_vars

\* The fixed fields and the other requests alone, without the notes.
C26_FixedFieldsKept ==
  [][\A p \in Procs :
       (h[p].kind \in Mutating /\ Wrote(p)) =>
         /\ DOMAIN rows' = DOMAIN rows
         /\ \A id \in DOMAIN rows : id # h[p].id => rows'[id] = rows[id]
         /\ LET old == rows[h[p].id]
                new == rows'[h[p].id]
            IN <<new.id, new.created_at, new.claim, new.condition,
                 new.citizen_wallet, new.verifier_wallet>>
               = <<old.id, old.created_at, old.claim, old.condition,
                   old.citizen_wallet, old.verifier_wallet>>]_vars

\* ---- C27 -----------------------------------------------------------------------
\* C27: in every reachable state, every stored request has a timeline whose
\* last entry carries the current status, and an evaluation sub-record written
\* by the latest write (evaluatedAt = updated_at) carries the current status.
C27_NotesAgreeWithStatus ==
  \A id \in DOMAIN rows :
    LET timeline == Timeline(rows[id])
        evaluation == notesToObject(rows[id].notes).evaluation
    IN /\ timeline # <<>>
       /\ timeline[Len(timeline)].state = rows[id].status
       /\ (IsSome(evaluation) /\ rows[id].updated_at = Some(Get(evaluation).evaluatedAt))
            => Get(evaluation).status = rows[id].status

\* Two handlers have written the same request, the later write was an
\* evaluation computed from a stale read, so the entry of the other write is
\* gone from the timeline.
C27_Witness ==
  \E p, q \in Procs :
    /\ p # q /\ h[p].id = h[q].id /\ h[p].id \in DOMAIN rows
    /\ h[p].nwrites = 1 /\ h[q].nwrites = 1
    /\ h[p].kind = "respond" /\ h[q].kind = "evaluate"
    /\ ~HasEntryAt(rows[h[p].id], h[p].now)
    /\ rows[h[q].id].updated_at = Some(h[q].now)
    /\ IsSome(notesToObject(rows[h[q].id].notes).evaluation)

\* ---- C28 -----------------------------------------------------------------------
\* In this step handler p writes a request whose status it leaves granted.
WritesGranted(p) ==
  /\ Wrote(p)
  /\ \E id \in DOMAIN rows' :
       /\ rows'[id].status = "granted"
       /\ (id \notin DOMAIN rows \/ rows'[id] # rows[id])

\* The write is that of an Evaluate whose credential verified and whose
\* evaluator passed or whose caller asked for granted.
GrantJustified(p) ==
  /\ h[p].kind = "evaluate"
  /\ h[p].verified = Some(TRUE)
  /\ LET snapRow == Get(h[p].snap)
         evaluation == evaluateExpression(Get(h'[p].subject), StoredCondition(snapRow),
                                          Some(snapRow.claim))
     IN NormalizedResult(h[p].body) = Some("granted") \/ evaluation.pass

\* C28: a request is written with status granted only by an Evaluate that
\* obtained verified = true and whose evaluator passed or whose caller
\* supplied the override granted; Create, Challenge and Respond never write
\* granted.
C28_GrantedOnlyByEvaluation ==
  [][\A p \in Procs : WritesGranted(p) => GrantJustified(p)]_vars

\* The same for the writes of Evaluate alone.
C28_EvaluateGrantsVerified ==
  [][\A p \in Procs :
       (WritesGranted(p) /\ h[p].kind = "evaluate") => GrantJustified(p)]_vars

\* ---- C29 -----------------------------------------------------------------------
\* C29: a request whose status is granted or denied holds a response payload;
\* no step clears a stored response payload; and an Evaluate that read a
\* request without a response payload is refused with 400 and writes nothing.
C29_TerminalHasResponse ==
  /\ [](\A id \in DOMAIN rows :
          rows[id].status \in Terminal => IsSome(rows[id].response_payload))
  /\ [][\A id \in DOMAIN rows :
          IsSome(rows[id].response_payload) => IsSome(rows'[id].response_payload)]_vars
  /\ [](\A p \in Procs :
          (h[p].kind = "evaluate" /\ IsSome(h[p].snap)
           /\ ~IsSome(Get(h[p].snap).response_payload)) =>
            /\ res[p] = Some(Err(400, "No citizen response available"))
            /\ h[p].nwrites = 0)

\* An Evaluate of a request without a response was refused, and the request
\* has since reached a final status with its response payload stored.
C29_Witness ==
  \E p \in Procs :
    /\ h[p].kind = "evaluate" /\ Failed(p)
    /\ Get(res[p]).error = "No citizen response available"
    /\ h[p].id \in DOMAIN rows
    /\ rows[h[p].id].status \in Terminal
    /\ IsSome(rows[h[p].id].response_payload)

\* ---- C30 -----------------------------------------------------------------------
NonDecreasing(timeline) ==
  \A i \in 1..(Len(timeline) - 1) : timeline[i].at <= timeline[i + 1].at

\* C30: updatedAt of a request never decreases from one stored state to the
\* next, and the at values of its timeline never decrease along the timeline,
\* however the handlers interleave.
C30_TimeNeverGoesBack ==
  [][\A id \in DOMAIN rows :
       /\ (IsSome(rows[id].updated_at) /\ IsSome(rows'[id].updated_at)) =>
            Get(rows[id].updated_at) <= Get(rows'[id].updated_at)
       /\ NonDecreasing(Timeline(rows'[id]))]_vars
====
